---- MODULE Spec2Model ----
(***************************************************************************)
(* SlackBlocksRenderer (slack_blocks_markdown/renderer.py): the walk of a  *)
(* parsed Markdown tree that appends Slack Block Kit blocks to the         *)
(* renderer's output list.                                                 *)
(*                                                                         *)
(* A text is a sequence of characters, each character a one-element        *)
(* string; the two characters the TLA+ lexer does not take inside a        *)
(* string (the backtick and the bullet) are the named values BT and        *)
(* Bullet.  A token is a record with the attributes the renderer reads;    *)
(* an absent optional attribute (start, header) is the empty sequence and  *)
(* a present one a one-element sequence.  Every render method takes the    *)
(* output list as it is before the call and yields the text it returns,    *)
(* the output list after the call, and whether it raised.                  *)
(***************************************************************************)
EXTENDS Integers, Sequences, FiniteSets, TLC

VARIABLES
    blocks,           \* the list self.blocks refers to
    expand_sections,  \* self.expand_sections: "None", "True" or "False"
    returned,         \* the list the last completed render(document) handed to its caller
    aliased,          \* TRUE while self.blocks and the returned list are one object
    doc,              \* the Document token of the render call in flight (or the last one)
    pos,              \* render_inner's position in doc.children (1-based)
    pc,               \* "idle" or "inner" (inside render_document's render_inner)
    outcome,          \* how the last call ended: "none" (none yet, or in flight), "returned", "raised"
    prev_outcome,     \* history: outcome of the call before the one in flight (or the last one)
    stale,            \* history: len(self.blocks) when the call in flight (or the last one) started
    caller,           \* who called render(document): "render" (a caller's own instance)
                      \* or "markdown_to_blocks" (the instance that function creates)
    dicts,            \* the list the last completed markdown_to_blocks call returned
    made,             \* the last TableBlock(rows, block_id) call of a caller: its arguments and
                      \* "built" or "ValueError" ("none" before the first call)
    earlier           \* a result a caller holds on to for a later comparison: the document,
                      \* the instance's expand_sections and the blocks of the list it got

vars == <<blocks, expand_sections, returned, aliased, doc, pos, pc, outcome, prev_outcome, stale,
          caller, dicts, made, earlier>>

----------------------------------------------------------------------------
(* Bounds of the model and the program's limits. *)

MaxChildren == 3   \* top-level children of a Document in the ordering family
Pad == 1           \* how far around a limit the input lengths are drawn
MaxItems == 3      \* items of a List in the labelling family
MaxStart == 2      \* largest start value of an ordered List (besides 9)
MaxDepth == 2      \* wrappers nested around the innermost inline node
MaxParts == 2      \* children of a Quote, and items of a List, in the nesting family

HeaderLimit == 150
HeaderKeep == 147
SectionLimit == 3000
SectionKeep == 2997
RowLimit == 100
CellLimit == 20
BlockIdLimit == 255

----------------------------------------------------------------------------
(* Characters and texts. *)

BT == "BACKTICK"
Bullet == "BULLET"
Whitespace == {" ", "\n", "\t"}
Ellipsis == <<".", ".", ".">>

\* the first position from i on, and the last one down from i, that is no whitespace
RECURSIVE first_kept(_, _), last_kept(_, _)
first_kept(t, i) ==
    IF i > Len(t) THEN i ELSE IF t[i] \in Whitespace THEN first_kept(t, i + 1) ELSE i
last_kept(t, i) ==
    IF i < 1 THEN i ELSE IF t[i] \in Whitespace THEN last_kept(t, i - 1) ELSE i

\* str.strip(): drop the leading and the trailing whitespace
strip(t) ==
    LET lo == first_kept(t, 1)
        hi == last_kept(t, Len(t))
    IN IF lo > hi THEN <<>> ELSE SubSeq(t, lo, hi)

\* the text is cut already when it is exactly at the limit
truncate_at_limit(t, limit, keep) ==
    IF Len(t) >= limit THEN SubSeq(t, 1, keep) \o Ellipsis ELSE t

\* the long text is cut at the limit and gets no "..."
truncate_unmarked(t, limit, keep) ==
    IF Len(t) > limit THEN SubSeq(t, 1, limit) ELSE t

\* text[:keep] + "..." when len(text) > limit
truncate(t, limit, keep) ==
    IF Len(t) > limit THEN SubSeq(t, 1, keep) \o Ellipsis ELSE t

Digits == <<"0", "1", "2", "3", "4", "5", "6", "7", "8", "9">>

\* str(n) of a non-negative int
RECURSIVE str(_)
str(n) == IF n < 10 THEN <<Digits[n + 1]>> ELSE str(n \div 10) \o <<Digits[(n % 10) + 1]>>

DigitValue(c) == CHOOSE d \in 0..9 : Digits[d + 1] = c

\* int(s) of a decimal text
RECURSIVE int(_)
int(s) ==
    IF Len(s) = 1 THEN DigitValue(s[1])
    ELSE 10 * int(SubSeq(s, 1, Len(s) - 1)) + DigitValue(s[Len(s)])

\* "\n".join(parts)
RECURSIVE join_lines(_)
join_lines(parts) ==
    IF parts = <<>> THEN <<>>
    ELSE IF Len(parts) = 1 THEN parts[1]
    ELSE parts[1] \o <<"\n">> \o join_lines(Tail(parts))

----------------------------------------------------------------------------
(* Tokens of the parsed tree. *)

None == <<>>
Some(v) == <<v>>

Token(k, ch, content, target, soft, start, header) ==
    [kind |-> k, children |-> ch, content |-> content, target |-> target,
     soft |-> soft, start |-> start, header |-> header]

RawText(c)         == Token("RawText", <<>>, c, <<>>, FALSE, None, None)
Strong(ch)         == Token("Strong", ch, <<>>, <<>>, FALSE, None, None)
Emphasis(ch)       == Token("Emphasis", ch, <<>>, <<>>, FALSE, None, None)
Strikethrough(ch)  == Token("Strikethrough", ch, <<>>, <<>>, FALSE, None, None)
InlineCode(ch)     == Token("InlineCode", ch, <<>>, <<>>, FALSE, None, None)
Link(url, ch)      == Token("Link", ch, <<>>, url, FALSE, None, None)
AutoLink(url, ch)  == Token("AutoLink", ch, <<>>, url, FALSE, None, None)
\* an Image keeps its src where a Link keeps its target
Image(src, ch)     == Token("Image", ch, <<>>, src, FALSE, None, None)
EscapeSequence(ch) == Token("EscapeSequence", ch, <<>>, <<>>, FALSE, None, None)
LineBreak(soft)    == Token("LineBreak", <<>>, <<>>, <<>>, soft, None, None)
Heading(ch)        == Token("Heading", ch, <<>>, <<>>, FALSE, None, None)
Paragraph(ch)      == Token("Paragraph", ch, <<>>, <<>>, FALSE, None, None)
BlockCode(ch)      == Token("BlockCode", ch, <<>>, <<>>, FALSE, None, None)
Quote(ch)          == Token("Quote", ch, <<>>, <<>>, FALSE, None, None)
List(start, ch)    == Token("List", ch, <<>>, <<>>, FALSE, start, None)
ListItem(ch)       == Token("ListItem", ch, <<>>, <<>>, FALSE, None, None)
ThematicBreak      == Token("ThematicBreak", <<>>, <<>>, <<>>, FALSE, None, None)
Table(header, ch)  == Token("Table", ch, <<>>, <<>>, FALSE, None, header)
TableRow(ch)       == Token("TableRow", ch, <<>>, <<>>, FALSE, None, None)
TableCell(ch)      == Token("TableCell", ch, <<>>, <<>>, FALSE, None, None)
Document(ch)       == Token("Document", ch, <<>>, <<>>, FALSE, None, None)
\* a token whose class has no entry in the renderer's dispatch
Unknown            == Token("Unknown", <<>>, <<>>, <<>>, FALSE, None, None)

----------------------------------------------------------------------------
(* Blocks. *)

\* the expand argument is dropped
SectionBlockUnset(t, e) == [type |-> "section", text |-> t, expand |-> "None", rows |-> <<>>]

HeaderBlock(t)   == [type |-> "header", text |-> t, expand |-> "absent", rows |-> <<>>]
SectionBlock(t, e) == [type |-> "section", text |-> t, expand |-> e, rows |-> <<>>]
DividerBlock     == [type |-> "divider", text |-> <<>>, expand |-> "absent", rows |-> <<>>]
Cell(t)          == [type |-> "raw_text", text |-> t]

\* the limits are taken exclusive: 100 rows, 20 cells, 255 characters are refused
TableBlockRejectsAtLimit(rows, block_id) ==
    \/ Len(rows) >= RowLimit
    \/ \E i \in 1..Len(rows) : Len(rows[i]) >= CellLimit
    \/ (block_id # None /\ block_id[1] # <<>> /\ Len(block_id[1]) >= BlockIdLimit)

\* TableBlock.__init__: TRUE when the constructor raises ValueError; block_id is None
\* or Some(text), and "if block_id" is false for None and for the empty text
TableBlockRejects(rows, block_id) ==
    \/ Len(rows) > RowLimit
    \/ \E i \in 1..Len(rows) : Len(rows[i]) > CellLimit
    \/ (block_id # None /\ block_id[1] # <<>> /\ Len(block_id[1]) > BlockIdLimit)

TableBlock(rows) == [type |-> "table", text |-> <<>>, expand |-> "absent", rows |-> rows]

\* to_dict() of a header, a section or a divider: an attribute that is None is left out
sdk_to_dict(block) ==
    IF block.type = "header"
    THEN [type |-> "header", text |-> [type |-> "plain_text", text |-> block.text]]
    ELSE IF block.type = "section"
    THEN IF block.expand = "None"
         THEN [type |-> "section", text |-> [type |-> "mrkdwn", text |-> block.text]]
         ELSE [type |-> "section", text |-> [type |-> "mrkdwn", text |-> block.text],
               expand |-> (block.expand = "True")]
    ELSE [type |-> "divider"]

\* block.to_dict(); TableBlock.to_dict leaves out block_id and column_settings when unset
to_dict(block) ==
    IF block.type = "table" THEN [type |-> "table", rows |-> block.rows]
    ELSE sdk_to_dict(block)

\* the dictionaries are listed last block first
to_dicts_reversed(bs) == [i \in 1..Len(bs) |-> to_dict(bs[Len(bs) + 1 - i])]

\* [block.to_dict() for block in blocks]
to_dicts(bs) == [i \in 1..Len(bs) |-> to_dict(bs[i])]

----------------------------------------------------------------------------
(* Plain-text extraction. *)

RECURSIVE _extract_plain_text(_), _extract_plain_text_from_children(_), ExtractEach(_)

ExtractEach(tokens) ==
    IF tokens = <<>> THEN <<>>
    ELSE _extract_plain_text(Head(tokens)) \o ExtractEach(Tail(tokens))

_extract_plain_text_from_children(token) == ExtractEach(token.children)

\* Strong keeps its asterisks
_extract_plain_text_marked(token) ==
    IF token.kind = "RawText" THEN token.content
    ELSE IF token.kind = "Strong"
        THEN <<"*">> \o _extract_plain_text_from_children(token) \o <<"*">>
    ELSE IF token.kind = "LineBreak" THEN <<" ">>
    ELSE IF token.kind \in {"Link", "AutoLink"} /\ token.children = <<>> THEN token.target
    ELSE _extract_plain_text_from_children(token)

\* the hard line break gives a newline
_extract_plain_text_hard(token) ==
    IF token.kind = "RawText" THEN token.content
    ELSE IF token.kind \in {"Link", "AutoLink"} /\ token.children = <<>> THEN token.target
    ELSE IF token.kind = "LineBreak" THEN IF token.soft THEN <<" ">> ELSE <<"\n">>
    ELSE _extract_plain_text_from_children(token)

_extract_plain_text(token) ==
    IF token.kind = "RawText" THEN token.content
    ELSE IF token.kind \in {"Strong", "Emphasis", "Strikethrough", "InlineCode"}
        THEN _extract_plain_text_from_children(token)
    ELSE IF token.kind \in {"Link", "AutoLink"}
        THEN IF token.children # <<>> THEN _extract_plain_text_from_children(token)
             ELSE token.target
    ELSE IF token.kind = "Image"
        THEN IF token.children # <<>> THEN _extract_plain_text_from_children(token)
             ELSE <<>>
    ELSE IF token.kind = "EscapeSequence" THEN _extract_plain_text_from_children(token)
    ELSE IF token.kind = "LineBreak" THEN IF token.soft THEN <<" ">> ELSE <<" ">>
    ELSE IF token.children # <<>> THEN _extract_plain_text_from_children(token)
    ELSE <<>>

----------------------------------------------------------------------------
(* Rendering.  A result carries the returned text, the output list after   *)
(* the call and whether the call raised (the list is then left as it was   *)
(* when the exception started to propagate).                               *)

Res(t, b) == [text |-> t, blocks |-> b, raised |-> FALSE]
Raise(b) == [text |-> <<>>, blocks |-> b, raised |-> TRUE]

\* the block is put in front of the list
prepend_block(b, block) == <<block>> \o b

\* self.blocks.append(block)
append_block(b, block) == Append(b, block)

RECURSIVE render(_, _), RenderEach(_, _), render_list_item(_, _)
RECURSIVE ItemParts(_, _), QuoteParts(_, _, _), ListItems(_, _, _, _, _)

\* ''.join(map(self.render, tokens)), the output list threaded through the calls
RenderEach(tokens, b) ==
    IF tokens = <<>> THEN Res(<<>>, b)
    ELSE LET h == render(Head(tokens), b) IN
         IF h.raised THEN h
         ELSE LET t == RenderEach(Tail(tokens), h.blocks) IN
              IF t.raised THEN t ELSE Res(h.text \o t.text, t.blocks)

render_inner(token, b) == RenderEach(token.children, b)

\* wrap the rendered children between two marks
Wrapped(open, token, b, close) ==
    LET r == render_inner(token, b) IN
    IF r.raised THEN r ELSE Res(open \o r.text \o close, r.blocks)

render_strong(token, b) == Wrapped(<<"*">>, token, b, <<"*">>)
render_emphasis(token, b) == Wrapped(<<"_">>, token, b, <<"_">>)
render_strikethrough(token, b) == Wrapped(<<"~">>, token, b, <<"~">>)
render_inline_code(token, b) == Wrapped(<<BT>>, token, b, <<BT>>)

\* the pipe form is used whenever the inner text is non-empty
render_link_any_text(token, b) ==
    LET url == token.target
        r == render_inner(token, b)
    IN IF r.raised THEN r
       ELSE IF r.text # <<>>
            THEN Res(<<"<">> \o url \o <<"|">> \o r.text \o <<">">>, r.blocks)
            ELSE Res(<<"<">> \o url \o <<">">>, r.blocks)

render_link(token, b) ==
    LET url == token.target
        r == render_inner(token, b)
    IN IF r.raised THEN r
       ELSE IF r.text # <<>> /\ r.text # url
            THEN Res(<<"<">> \o url \o <<"|">> \o r.text \o <<">">>, r.blocks)
            ELSE Res(<<"<">> \o url \o <<">">>, r.blocks)

render_auto_link(token, b) == Res(<<"<">> \o token.target \o <<">">>, b)

render_image(token, b) ==
    LET r == render_inner(token, b) IN
    IF r.raised THEN r
    ELSE IF r.text # <<>>
         THEN Res(<<"<">> \o token.target \o <<"|">> \o r.text \o <<">">>, r.blocks)
         ELSE Res(<<"<">> \o token.target \o <<">">>, r.blocks)

\* the soft break gives the two newlines and the hard break the one
render_line_break_swapped(token, b) ==
    Res(IF token.soft THEN <<"\n", "\n">> ELSE <<"\n">>, b)

render_line_break(token, b) == Res(IF token.soft THEN <<"\n">> ELSE <<"\n", "\n">>, b)

render_raw_text(token, b) == Res(token.content, b)

render_escape_sequence(token, b) == render_inner(token, b)

\* the header text is the rendering of the children, made by self.render
render_heading_rendered(token, b) ==
    LET r == render_inner(token, b) IN
    IF r.raised THEN r
    ELSE Res(<<>>, append_block(r.blocks,
             HeaderBlock(truncate(strip(r.text), HeaderLimit, HeaderKeep))))

\* the header is appended only when its text is non-empty
render_heading_nonempty(token, b) ==
    LET text_content ==
            truncate(strip(_extract_plain_text_from_children(token)), HeaderLimit, HeaderKeep)
    IN IF text_content # <<>> THEN Res(<<>>, append_block(b, HeaderBlock(text_content)))
       ELSE Res(<<>>, b)

render_heading(token, b) ==
    LET text_content ==
            truncate(strip(_extract_plain_text_from_children(token)), HeaderLimit, HeaderKeep)
    IN Res(<<>>, append_block(b, HeaderBlock(text_content)))

\* the section is appended whatever the text
render_paragraph_always(token, b) ==
    LET r == render_inner(token, b) IN
    IF r.raised THEN r
    ELSE Res(<<>>, append_block(r.blocks,
             SectionBlock(truncate(strip(r.text), SectionLimit, SectionKeep),
                          expand_sections)))

render_paragraph(token, b) ==
    LET r == render_inner(token, b) IN
    IF r.raised THEN r
    ELSE LET text_content == strip(r.text) IN
         IF text_content # <<>>
         THEN Res(<<>>, append_block(r.blocks,
                  SectionBlock(truncate(text_content, SectionLimit, SectionKeep),
                               expand_sections)))
         ELSE Res(<<>>, r.blocks)

\* the language of the fence is written after the opening backticks
render_block_code_tagged(token, b) ==
    LET code_content == IF token.children # <<>> THEN token.children[1].content ELSE <<>>
        formatted_code ==
            <<BT, BT, BT>> \o token.target \o <<"\n">> \o code_content \o <<"\n", BT, BT, BT>>
    IN Res(<<>>, append_block(b,
             SectionBlock(truncate(formatted_code, SectionLimit, SectionKeep),
                          expand_sections)))

render_block_code(token, b) ==
    LET code_content == IF token.children # <<>> THEN token.children[1].content ELSE <<>>
        formatted_code == <<BT, BT, BT, "\n">> \o code_content \o <<"\n", BT, BT, BT>>
    IN Res(<<>>, append_block(b,
             SectionBlock(truncate(formatted_code, SectionLimit, SectionKeep),
                          expand_sections)))

\* render_quote's loop over token.children: the non-empty stripped parts
QuoteParts(children, parts, b) ==
    IF children = <<>> THEN [parts |-> parts, blocks |-> b, raised |-> FALSE]
    ELSE LET child == Head(children) IN
         IF child.children # <<>>
         THEN LET r == RenderEach(child.children, b) IN
              IF r.raised THEN [parts |-> parts, blocks |-> r.blocks, raised |-> TRUE]
              ELSE LET paragraph_content == strip(r.text) IN
                   QuoteParts(Tail(children),
                              IF paragraph_content # <<>>
                              THEN Append(parts, paragraph_content) ELSE parts,
                              r.blocks)
         ELSE QuoteParts(Tail(children), parts, b)

\* a lone ">" line follows every part, the last one too
format_quote_trailing(quote_parts) ==
    join_lines([k \in 1..(2 * Len(quote_parts)) |->
                   IF k % 2 = 1 THEN <<">">> \o quote_parts[(k + 1) \div 2] ELSE <<">">>])

\* ">" before every part and a lone ">" line between two parts
format_quote(quote_parts) ==
    join_lines([k \in 1..(2 * Len(quote_parts) - 1) |->
                   IF k % 2 = 1 THEN <<">">> \o quote_parts[(k + 1) \div 2] ELSE <<">">>])

\* the section is appended also when no part was collected
render_quote_always(token, b) ==
    LET q == QuoteParts(token.children, <<>>, b) IN
    IF q.raised THEN Raise(q.blocks)
    ELSE Res(<<>>, append_block(q.blocks,
             SectionBlock(truncate(join_lines([k \in 1..Len(q.parts) |-> <<">">> \o q.parts[k]]),
                                   SectionLimit, SectionKeep),
                          expand_sections)))

render_quote(token, b) ==
    LET q == QuoteParts(token.children, <<>>, b) IN
    IF q.raised THEN Raise(q.blocks)
    ELSE IF q.parts # <<>>
         THEN Res(<<>>, append_block(q.blocks,
                  SectionBlock(truncate(format_quote(q.parts), SectionLimit, SectionKeep),
                               expand_sections)))
         ELSE Res(<<>>, q.blocks)

\* the start value is tested for truth, so that start = 0 counts as unordered
list_label_truthy(token, i, item_content) ==
    IF token.start # None /\ token.start[1] # 0
    THEN str(i + int(str(token.start[1]))) \o <<".", " ">> \o item_content
    ELSE <<Bullet, " ">> \o item_content

\* the label of the item at 0-based position i
list_label(token, i, item_content) ==
    IF token.start # None
    THEN LET start_num == int(str(token.start[1])) IN
         str(i + start_num) \o <<".", " ">> \o item_content
    ELSE <<Bullet, " ">> \o item_content

\* render_list's loop over enumerate(token.children)
ListItems(token, children, i, items, b) ==
    IF children = <<>> THEN [items |-> items, blocks |-> b, raised |-> FALSE]
    ELSE LET r == render_list_item(Head(children), b) IN
         IF r.raised THEN [items |-> items, blocks |-> r.blocks, raised |-> TRUE]
         ELSE LET item_content == strip(r.text) IN
              ListItems(token, Tail(children), i + 1,
                        IF item_content # <<>>
                        THEN Append(items, list_label(token, i, item_content)) ELSE items,
                        r.blocks)

\* the section is appended also when no item is left
render_list_always(token, b) ==
    LET l == ListItems(token, token.children, 0, <<>>, b) IN
    IF l.raised THEN Raise(l.blocks)
    ELSE Res(<<>>, append_block(l.blocks,
             SectionBlock(truncate(join_lines(l.items), SectionLimit, SectionKeep),
                          expand_sections)))

render_list(token, b) ==
    LET l == ListItems(token, token.children, 0, <<>>, b) IN
    IF l.raised THEN Raise(l.blocks)
    ELSE IF l.items # <<>>
         THEN Res(<<>>, append_block(l.blocks,
                  SectionBlock(truncate(join_lines(l.items), SectionLimit, SectionKeep),
                               expand_sections)))
         ELSE Res(<<>>, l.blocks)

\* render_list_item's loop over token.children
ItemParts(children, b) ==
    IF children = <<>> THEN Res(<<>>, b)
    ELSE LET child == Head(children)
             r == IF child.children # <<>> THEN RenderEach(child.children, b)
                  ELSE render(child, b)
         IN IF r.raised THEN r
            ELSE LET t == ItemParts(Tail(children), r.blocks) IN
                 IF t.raised THEN t ELSE Res(r.text \o t.text, t.blocks)

render_list_item(token, b) == ItemParts(token.children, b)

\* two dividers are appended for one break
render_thematic_break_twice(token, b) ==
    Res(<<>>, append_block(append_block(b, DividerBlock), DividerBlock))

render_thematic_break(token, b) == Res(<<>>, append_block(b, DividerBlock))

\* the cell text keeps its leading and trailing whitespace
render_table_cell_unstripped(token) == _extract_plain_text_from_children(token)

render_table_cell(token) == strip(_extract_plain_text_from_children(token))

\* _render_table_row_as_cells' loop, which breaks at 20 cells
RECURSIVE RowCells(_, _), AllCells(_, _)

\* the loop without its break
AllCells(children, cells) ==
    IF children = <<>> THEN cells
    ELSE LET cell_content == render_table_cell(Head(children)) IN
         AllCells(Tail(children),
                  Append(cells, Cell(IF cell_content # <<>> THEN cell_content
                                     ELSE <<" ">>)))

RowCells(children, cells) ==
    IF children = <<>> THEN cells
    ELSE LET cell_content == render_table_cell(Head(children)) IN
         IF Len(cells) >= CellLimit THEN cells
         ELSE RowCells(Tail(children),
                       Append(cells, Cell(IF cell_content # <<>> THEN cell_content
                                          ELSE <<" ">>)))

_render_table_row_as_cells(token) == RowCells(token.children, <<>>)

\* the rows are not capped
keep_rows(rows) == rows

\* rows[:100] when len(rows) > 100
cap_rows(rows) == IF Len(rows) > RowLimit THEN SubSeq(rows, 1, RowLimit) ELSE rows

\* the header row is put after the body rows
table_rows_header_last(token) ==
    [k \in 1..Len(token.children) |-> _render_table_row_as_cells(token.children[k])]
    \o (IF token.header # None THEN <<_render_table_row_as_cells(token.header[1])>> ELSE <<>>)

table_rows(token) ==
    (IF token.header # None THEN <<_render_table_row_as_cells(token.header[1])>> ELSE <<>>)
    \o [k \in 1..Len(token.children) |-> _render_table_row_as_cells(token.children[k])]

render_table(token, b) ==
    LET rows == table_rows(token) IN
    IF rows # <<>>
    THEN LET capped == cap_rows(rows) IN
         IF TableBlockRejects(capped, None) THEN Raise(b)
         ELSE Res(<<>>, append_block(b, TableBlock(capped)))
    ELSE Res(<<>>, b)

\* " | ".join(cells), between "*" for a header row
RECURSIVE join_cells(_)
join_cells(cells) ==
    IF cells = <<>> THEN <<>>
    ELSE IF Len(cells) = 1 THEN cells[1]
    ELSE cells[1] \o <<" ", "|", " ">> \o join_cells(Tail(cells))

render_table_row(token, b) ==
    Res(join_cells([k \in 1..Len(token.children) |->
                       LET cell_content == render_table_cell(token.children[k]) IN
                       IF cell_content # <<>> THEN cell_content ELSE <<" ">>]), b)

\* the dispatch on the token's class name; a class with no handler raises
render(token, b) ==
    CASE token.kind = "RawText" -> render_raw_text(token, b)
      [] token.kind = "Strong" -> render_strong(token, b)
      [] token.kind = "Emphasis" -> render_emphasis(token, b)
      [] token.kind = "Strikethrough" -> render_strikethrough(token, b)
      [] token.kind = "InlineCode" -> render_inline_code(token, b)
      [] token.kind = "Link" -> render_link(token, b)
      [] token.kind = "AutoLink" -> render_auto_link(token, b)
      [] token.kind = "Image" -> render_image(token, b)
      [] token.kind = "LineBreak" -> render_line_break(token, b)
      [] token.kind = "EscapeSequence" -> render_escape_sequence(token, b)
      [] token.kind = "Heading" -> render_heading(token, b)
      [] token.kind = "Paragraph" -> render_paragraph(token, b)
      [] token.kind = "BlockCode" -> render_block_code(token, b)
      [] token.kind = "Quote" -> render_quote(token, b)
      [] token.kind = "List" -> render_list(token, b)
      [] token.kind = "ListItem" -> render_list_item(token, b)
      [] token.kind = "ThematicBreak" -> render_thematic_break(token, b)
      [] token.kind = "Table" -> render_table(token, b)
      [] token.kind = "TableRow" -> render_table_row(token, b)
      [] token.kind = "TableCell" -> Res(render_table_cell(token), b)
      [] OTHER -> Raise(b)

----------------------------------------------------------------------------
(* Input documents. *)

\* every sequence over pool of length at most n
RECURSIVE SeqsUpTo(_, _)
SeqsUpTo(pool, n) ==
    IF n = 0 THEN {<<>>}
    ELSE LET shorter == SeqsUpTo(pool, n - 1) IN
         shorter \cup {Append(s, x) : s \in shorter, x \in pool}

\* a text of length n whose characters depend on their position
Ramp(n) == [i \in 1..n |-> Digits[(i % 10) + 1]]

Around(limit) == (limit - Pad)..(limit + Pad)

TitleText == <<"T", "i", "t", "l", "e">>
SomeText == <<"S", "o", "m", "e", " ">>
BoldText == <<"b", "o", "l", "d">>
TailText == <<" ", "t", "e", "x", "t", ".">>
UrlText == <<"h", "t", "t", "p", ":", "/", "/", "x", "_", "y">>
MarkText == <<"*", "a", "_", BT>>

TitleHeading == Heading(<<RawText(TitleText)>>)
BoldParagraph == Paragraph(<<RawText(SomeText), Strong(<<RawText(BoldText)>>), RawText(TailText)>>)
BlankParagraph == Paragraph(<<RawText(<<" ", "\t">>)>>)
BreakParagraph == Paragraph(<<LineBreak(FALSE)>>)
EmptyParagraph == Paragraph(<<>>)
PlainParagraph(t) == Paragraph(<<RawText(t)>>)
CodeBlock == BlockCode(<<RawText(<<"x", "=", "1">>)>>)
PlainList == List(Some(1), <<ListItem(<<PlainParagraph(<<"a">>)>>), ListItem(<<PlainParagraph(<<"b">>)>>)>>)
PlainQuote == Quote(<<PlainParagraph(<<"q">>)>>)
PlainRow(c) == TableRow(<<TableCell(<<RawText(<<c>>)>>), TableCell(<<RawText(<<c, c>>)>>)>>)
SmallTable == Table(Some(PlainRow("h")), <<PlainRow("r")>>)

\* the ordering family: documents of several top-level children
SeqPool == {TitleHeading, BoldParagraph, ThematicBreak}

MixedDocs ==
    { <<TitleHeading, BoldParagraph, CodeBlock, PlainList, PlainQuote, SmallTable, ThematicBreak>>,
      <<SmallTable, PlainQuote, PlainList, CodeBlock>>,
      <<BlankParagraph>>, <<BreakParagraph>>, <<EmptyParagraph>>,
      <<BlankParagraph, BreakParagraph, EmptyParagraph>>,
      <<BlankParagraph, TitleHeading, EmptyParagraph>>,
      <<Unknown>>, <<TitleHeading, Unknown, BoldParagraph>>,
      <<BoldParagraph, ThematicBreak, Unknown>> }

SeqDocs == {Document(s) : s \in SeqsUpTo(SeqPool, MaxChildren) \cup MixedDocs}

\* the inline family: inline trees under one Heading or one Paragraph
Wrappers == {"Strong", "Emphasis", "Strikethrough", "InlineCode", "Link", "Image",
             "EscapeSequence"}
DeepWrappers == {"Strong", "Link", "InlineCode"}

Wrap(k, ch) == Token(k, ch, <<>>, IF k \in {"Link", "Image"} THEN UrlText ELSE <<>>,
                     FALSE, None, None)

Leaves ==
    { RawText(<<"a">>), RawText(MarkText), RawText(<<" ", "a", " ">>),
      LineBreak(TRUE), LineBreak(FALSE),
      Link(UrlText, <<>>), Image(UrlText, <<>>),
      AutoLink(UrlText, <<RawText(UrlText)>>), AutoLink(UrlText, <<>>) }

Level1 == {Wrap(k, <<x>>) : k \in Wrappers, x \in {RawText(<<"a">>), RawText(MarkText), LineBreak(TRUE)}}

RECURSIVE Deep(_)
Deep(n) ==
    IF n = 0 THEN {Strong(<<RawText(<<"a">>)>>), Emphasis(<<RawText(MarkText)>>)}
    ELSE LET inner == Deep(n - 1) IN
         inner \cup {Wrap(k, <<x>>) : k \in DeepWrappers, x \in inner}

InlineRows ==
    {<<x>> : x \in Leaves \cup Level1 \cup Deep(MaxDepth)}
    \cup { <<RawText(<<"a">>), LineBreak(TRUE), RawText(<<"b">>)>>,
           <<RawText(<<"a">>), LineBreak(FALSE), RawText(<<"b">>)>>,
           <<Strong(<<RawText(<<"a">>)>>), RawText(<<" ">>), InlineCode(<<RawText(<<"c">>)>>)>>,
           <<RawText(<<" ">>), Emphasis(<<RawText(<<"a">>)>>), RawText(<<" ">>)>>,
           <<>> }

LongHeadingRows ==
    {<<RawText(Ramp(n))>> : n \in Around(HeaderLimit) \cup Around(HeaderKeep)}
    \cup {<<Strong(<<RawText(Ramp(n))>>)>> : n \in Around(HeaderLimit)}
    \cup {<<RawText(<<" ">>), RawText(Ramp(n)), RawText(<<" ">>)>> : n \in Around(HeaderLimit)}

HeadingDocs == {Document(<<Heading(ch)>>) : ch \in InlineRows \cup LongHeadingRows}

\* the section family: paragraphs, lists, quotes and code blocks whose assembled text
\* has a length n around the section limit
Half == SectionLimit \div 2

LongSections(n) ==
    { Paragraph(<<RawText(Ramp(n))>>),
      Paragraph(<<RawText(<<" ">>), RawText(Ramp(n)), RawText(<<"\n">>)>>),
      Paragraph(<<Strong(<<RawText(Ramp(n - 2))>>)>>),
      List(None, <<ListItem(<<PlainParagraph(Ramp(n - 2))>>)>>),
      List(Some(1), <<ListItem(<<PlainParagraph(Ramp(Half))>>),
                      ListItem(<<PlainParagraph(Ramp(n - Half - 7))>>)>>),
      Quote(<<PlainParagraph(Ramp(n - 1))>>),
      Quote(<<PlainParagraph(Ramp(Half)), PlainParagraph(Ramp(n - Half - 5))>>),
      BlockCode(<<RawText(Ramp(n - 8))>>) }

\* a fenced code block keeps its language where a Link keeps its target
SectionNodes ==
    UNION {LongSections(n) : n \in Around(SectionLimit)}
    \cup {BoldParagraph, PlainList, PlainQuote, CodeBlock}
    \cup { BlockCode(<<>>), BlockCode(<<RawText(<<>>)>>),
           BlockCode(<<RawText(<<"x", "\n", " ", "y", "\n">>), RawText(<<"z">>)>>),
           Token("BlockCode", <<RawText(<<"x", "=", "1">>)>>, <<>>, <<"p", "y">>,
                 FALSE, None, None) }

SectionDocs == {Document(<<x>>) : x \in SectionNodes}

\* the table family: a header row and N body rows of M cells each
CellAt(r, c) == TableCell(<<RawText(<<Digits[(r % 10) + 1], Digits[(c % 10) + 1]>>)>>)
GridRow(r, m) == TableRow([c \in 1..m |-> CellAt(r, c)])
Grid(n, m) == Table(Some(GridRow(0, m)), [r \in 1..n |-> GridRow(r, m)])

SmallCounts == {0, 1, 2}
RowCounts == {RowLimit - 1 + d : d \in (0 - Pad)..Pad}
ColCounts == Around(CellLimit)

FormattedRow ==
    TableRow(<< TableCell(<<Strong(<<RawText(<<"A">>)>>), RawText(<<" ", "w", " ">>),
                            InlineCode(<<RawText(<<"c">>)>>)>>),
                TableCell(<<>>),
                TableCell(<<InlineCode(<<RawText(<<" ", "a", " ">>)>>)>>) >>)

GridTables ==
    {Grid(n, m) : n \in SmallCounts, m \in (SmallCounts \ {0}) \cup ColCounts}
    \cup {Grid(n, m) : n \in RowCounts, m \in {1, CellLimit + Pad}}

TableNodes ==
    GridTables
    \cup { Table(Some(FormattedRow), <<FormattedRow, GridRow(1, 3)>>),
           Table(None, <<>>),
           Table(None, <<GridRow(1, 2), GridRow(2, 2)>>) }

TableDocs == {Document(<<x>>) : x \in TableNodes}

\* the limits family: the documents with a text or a table over a limit
LimitNodes ==
    {Heading(ch) : ch \in LongHeadingRows}
    \cup LongSections(SectionLimit + Pad)
    \cup {Grid(n, m) : n \in {1, RowLimit + Pad}, m \in {1, CellLimit + Pad}}
    \cup {TitleHeading, BoldParagraph, ThematicBreak}

LimitDocs == {Document(<<x>>) : x \in LimitNodes}

\* the constructor family: n rows of one cell, one of them (or each) of m cells, and a
\* block_id that is absent, empty or of a length around its limit
TableBlockArgs ==
    LET RaggedRows(n, m, long) ==
            [r \in 1..n |-> [c \in 1..(IF long = 0 \/ long = r THEN m ELSE 1) |-> Cell(<<"x">>)]]
        RowsChoices ==
            {RaggedRows(n, m, long) : n \in {0, 1} \cup Around(RowLimit),
                                      m \in {1} \cup Around(CellLimit), long \in {0, 1}}
            \cup {RaggedRows(RowLimit, m, RowLimit) : m \in Around(CellLimit)}
        BlockIdChoices ==
            {None, Some(<<>>)} \cup {Some(Ramp(n)) : n \in {1} \cup Around(BlockIdLimit)}
    IN RowsChoices \X BlockIdChoices

\* the blank family: nodes of every block kind whose content is empty or whitespace,
\* next to nodes with content
BlankNodes ==
    LET BlankRow == TableRow(<<TableCell(<<>>), TableCell(<<RawText(<<" ">>)>>)>>) IN
    { Heading(<<>>), Heading(<<RawText(<<" ", "\t">>)>>), Heading(<<Strong(<<RawText(<<" ">>)>>)>>),
      BlankParagraph, EmptyParagraph, BreakParagraph,
      BlockCode(<<>>), BlockCode(<<RawText(<<>>)>>), BlockCode(<<RawText(<<" ", "\n">>)>>),
      Quote(<<>>), Quote(<<BlankParagraph>>), Quote(<<EmptyParagraph>>),
      Quote(<<Quote(<<BlankParagraph>>)>>),
      List(None, <<>>), List(Some(1), <<ListItem(<<PlainParagraph(<<" ">>)>>)>>),
      List(None, <<ListItem(<<>>), ListItem(<<PlainParagraph(<<" ">>)>>)>>),
      Table(None, <<>>), Table(Some(BlankRow), <<BlankRow>>), Table(None, <<TableRow(<<>>)>>) }

BlankDocs ==
    {Document(<<x>>) : x \in BlankNodes \cup {TitleHeading, BoldParagraph, ThematicBreak,
                                               CodeBlock, PlainQuote, PlainList, SmallTable,
                                               Paragraph(<<Image(UrlText, <<>>)>>)}}
    \cup {Document(<<x, y>>) : x, y \in {Heading(<<>>), BlankParagraph, ThematicBreak,
                                          BoldParagraph, BlockCode(<<>>)}}
    \cup {Document(<<Heading(<<RawText(<<" ", "\t">>)>>), BlankParagraph, ThematicBreak>>),
          Document(<<Unknown>>)}

\* the list family
ItemText == ListItem(<<Paragraph(<<RawText(<<"a", " ">>), Strong(<<RawText(<<"b">>)>>)>>)>>)
ItemBlank == ListItem(<<PlainParagraph(<<" ">>)>>)
ItemBare == ListItem(<<>>)

StartChoices == {None, Some(9)} \cup {Some(n) : n \in 0..MaxStart}

ListNodes ==
    {List(st, items) : st \in StartChoices, items \in SeqsUpTo({ItemText, ItemBlank}, MaxItems)}
    \cup { List(None, <<ListItem(<<PlainParagraph(<<"a">>)>>), ItemBare,
                        ListItem(<<PlainParagraph(<<"b">>)>>)>>),
           List(Some(0), <<ItemBare, ListItem(<<PlainParagraph(<<"b">>)>>)>>) }

ListDocs == {Document(<<x>>) : x \in ListNodes}

\* the link family: one paragraph around inline nodes
LinkRows ==
    {<<Link(u, ch)>> : u \in {UrlText, <<"u">>},
                       ch \in { <<>>, <<RawText(UrlText)>>, <<RawText(<<"u">>)>>,
                                <<Strong(<<RawText(<<"u">>)>>)>>, <<RawText(<<" ">>)>>,
                                <<RawText(<<"h", "t">>), RawText(<<"t", "p", ":", "/", "/", "x", "_", "y">>)>> }}
    \cup {<<AutoLink(u, ch)>> : u \in {UrlText, <<"u">>},
                                ch \in {<<>>, <<RawText(UrlText)>>, <<RawText(<<"u">>)>>}}
    \cup { <<RawText(<<"s", "e", "e", " ">>), Link(UrlText, <<RawText(<<"t">>)>>)>> }

ParagraphDocs == {Document(<<Paragraph(ch)>>) : ch \in InlineRows \cup LinkRows}

\* the nesting family: quotes and lists around paragraphs, quotes, lists and breaks
InnerQuote == Quote(<<PlainParagraph(<<"n">>)>>)
InnerList == List(None, <<ListItem(<<PlainParagraph(<<"i">>)>>)>>)

QuoteNodes ==
    LET SpacedParagraph ==
            Paragraph(<<RawText(<<" ", "B">>), Strong(<<RawText(<<"c">>)>>), RawText(<<"\n">>)>>)
        LinesParagraph == Paragraph(<<RawText(<<"a">>), LineBreak(TRUE), RawText(<<"b">>)>>)
        BreaksParagraph == Paragraph(<<RawText(<<"a">>), LineBreak(FALSE), RawText(<<"b">>)>>)
        QuotePool == {PlainParagraph(<<"A">>), SpacedParagraph, BlankParagraph, ThematicBreak,
                      InnerQuote, InnerList}
    IN {Quote(ch) : ch \in SeqsUpTo(QuotePool, MaxParts)}
       \cup { Quote(<<PlainParagraph(<<"A">>), PlainParagraph(<<"B">>), PlainParagraph(<<"C">>)>>),
              Quote(<<TitleHeading>>), Quote(<<LinesParagraph>>), Quote(<<BreaksParagraph>>),
              Quote(<<PlainParagraph(<<"A">>), LinesParagraph>>),
              Quote(<<EmptyParagraph>>), Quote(<<CodeBlock>>), Quote(<<Quote(<<InnerQuote>>)>>),
              Quote(<<PlainParagraph(<<"A">>), BlankParagraph, InnerQuote, SpacedParagraph>>) }

NestedListNodes ==
    LET ItemPool == { ListItem(<<PlainParagraph(<<"a">>)>>),
                      ListItem(<<PlainParagraph(<<"a">>), InnerQuote>>),
                      ListItem(<<ThematicBreak>>),
                      ListItem(<<PlainParagraph(<<"a">>), InnerList>>) }
    IN {List(st, items) : st \in {None, Some(1)}, items \in SeqsUpTo(ItemPool, MaxParts)}
       \cup { List(None, <<ListItem(<<Quote(<<InnerQuote>>)>>)>>),
              List(None, <<ListItem(<<PlainParagraph(<<"a">>), ThematicBreak>>)>>),
              List(None, <<ListItem(<<CodeBlock>>), ListItem(<<TitleHeading>>)>>),
              List(None, <<ListItem(<<SmallTable>>)>>) }

NestDocs ==
    {Document(<<x>>) : x \in QuoteNodes \cup NestedListNodes}
    \cup { Document(<<TitleHeading, Quote(<<PlainParagraph(<<"A">>), InnerQuote>>), ThematicBreak>>),
           Document(<<List(None, <<ListItem(<<PlainParagraph(<<"a">>), InnerQuote>>)>>),
                      BoldParagraph>>) }

\* the extraction family: a Heading, and the cells of a Table, around inline nodes and
\* around nodes of other kinds (block-level ones, one without a handler)
ExtractDocs ==
    LET OddRows ==
            { <<ThematicBreak>>, <<PlainParagraph(<<"p">>)>>, <<PlainQuote>>, <<PlainList>>,
              <<CodeBlock>>, <<Unknown>>, <<EmptyParagraph>>,
              <<RawText(<<"a">>), PlainParagraph(<<"p">>), ThematicBreak>>,
              <<Strong(<<ThematicBreak, RawText(<<"s">>)>>)>>,
              <<Link(UrlText, <<PlainParagraph(<<"p">>)>>), Image(UrlText, <<ThematicBreak>>)>>,
              <<RawText(<<"a">>), LineBreak(TRUE), RawText(<<"b">>)>>,
              <<RawText(<<"a">>), LineBreak(FALSE), RawText(<<"b">>)>>,
              <<Image(UrlText, <<RawText(<<"a", "l", "t">>)>>), AutoLink(UrlText, <<>>)>>,
              <<>> }
        Rows == {<<x>> : x \in Leaves \cup Level1} \cup OddRows
        CellRow(r) == TableRow(<<TableCell(r), TableCell(<<>>)>>)
    IN {Document(<<Heading(r)>>) : r \in Rows}
       \cup {Document(<<Table(Some(CellRow(r)), <<CellRow(r)>>)>>) : r \in Rows}
       \cup {Document(<<Heading(r), Table(None, <<CellRow(r)>>), ThematicBreak>>) : r \in OddRows}

----------------------------------------------------------------------------
(* The renderer instance and its render(document) calls. *)

\* SlackBlocksRenderer(): self.blocks = [], self.expand_sections = None (the default)
Init ==
    /\ blocks = <<>>
    /\ expand_sections = "None"
    /\ returned = <<>>
    /\ aliased = FALSE
    /\ doc = Document(<<>>)
    /\ pos = 0
    /\ pc = "idle"
    /\ outcome = "none"
    /\ prev_outcome = "none"
    /\ stale = 0
    /\ caller = "render"
    /\ dicts = <<>>
    /\ made = [rows |-> <<>>, block_id |-> None, status |-> "none"]
    /\ earlier = [doc |-> Document(<<>>), expand |-> "None", blocks |-> <<>>, status |-> "none"]

\* SlackBlocksRenderer(expand_sections=e), e being True, False or left at its default:
\* the caller makes a new instance and uses it from now on (the list an earlier
\* instance handed out stays with the caller)
construct(e) ==
    /\ pc = "idle"
    /\ blocks' = <<>>
    /\ expand_sections' = e
    /\ aliased' = FALSE
    /\ doc' = Document(<<>>)
    /\ pos' = 0
    /\ pc' = "idle"
    /\ outcome' = "none"
    /\ prev_outcome' = "none"
    /\ stale' = 0
    /\ caller' = "render"
    /\ UNCHANGED <<returned, dicts, made, earlier>>

\* the list is not reset
keep_blocks(b) == b

\* self.blocks = []: a new list, the one handed out earlier is left alone
reset_blocks(b) == <<>>

\* self.blocks.clear(): the list handed out earlier is emptied and filled again
render_document_clearing(d) ==
    /\ blocks' = <<>>
    /\ aliased' = aliased
    /\ returned' = IF aliased THEN <<>> ELSE returned
    /\ doc' = d
    /\ pos' = 1
    /\ pc' = "inner"
    /\ outcome' = "none"
    /\ prev_outcome' = outcome
    /\ stale' = Len(blocks)
    /\ caller' = "render"
    /\ UNCHANGED <<expand_sections, dicts, made, earlier>>

\* render(document) -> render_document: the reset, before render_inner starts
render_document(d) ==
    /\ blocks' = reset_blocks(blocks)
    /\ aliased' = FALSE
    /\ doc' = d
    /\ pos' = 1
    /\ pc' = "inner"
    /\ outcome' = "none"
    /\ prev_outcome' = outcome
    /\ stale' = Len(blocks)
    /\ caller' = "render"
    /\ UNCHANGED <<expand_sections, returned, dicts, made, earlier>>

\* render_inner(document): render the next top-level child; an exception leaves
\* render_document with self.blocks as it is
render_child ==
    /\ pc = "inner"
    /\ pos <= Len(doc.children)
    /\ LET r == render(doc.children[pos], blocks) IN
        /\ blocks' = r.blocks
        /\ returned' = IF aliased THEN r.blocks ELSE returned
        /\ IF r.raised
           THEN pc' = "idle" /\ outcome' = "raised" /\ pos' = pos
           ELSE pc' = "inner" /\ outcome' = outcome /\ pos' = pos + 1
    /\ UNCHANGED <<expand_sections, aliased, doc, prev_outcome, stale, caller, dicts, made,
                   earlier>>

\* return self.blocks
render_return ==
    /\ pc = "inner"
    /\ pos > Len(doc.children)
    /\ caller = "render"
    /\ returned' = blocks
    /\ aliased' = TRUE
    /\ pc' = "idle"
    /\ outcome' = "returned"
    /\ UNCHANGED <<blocks, expand_sections, doc, pos, prev_outcome, stale, caller, dicts, made,
                   earlier>>

\* a caller renders one document of the family D
Call(D) == pc = "idle" /\ \E d \in D : render_document(d)

\* markdown_to_blocks, up to the start of render_inner: SlackBlocksRenderer() makes an
\* instance of its own (blocks [], expand_sections None), d is the Document parsed from
\* the text, and render(d) resets the instance's list
markdown_to_blocks(d) ==
    /\ pc = "idle"
    /\ blocks' = reset_blocks(<<>>)
    /\ expand_sections' = "None"
    /\ aliased' = FALSE
    /\ doc' = d
    /\ pos' = 1
    /\ pc' = "inner"
    /\ outcome' = "none"
    /\ prev_outcome' = outcome
    /\ stale' = 0
    /\ caller' = "markdown_to_blocks"
    /\ UNCHANGED <<returned, dicts, made, earlier>>

\* markdown_to_blocks, from render's return on: blocks = renderer.render(document),
\* then return [block.to_dict() for block in blocks]
to_dict_each ==
    /\ pc = "inner"
    /\ pos > Len(doc.children)
    /\ caller = "markdown_to_blocks"
    /\ returned' = blocks
    /\ aliased' = TRUE
    /\ dicts' = to_dicts(blocks)
    /\ pc' = "idle"
    /\ outcome' = "returned"
    /\ UNCHANGED <<blocks, expand_sections, doc, pos, prev_outcome, stale, caller, made, earlier>>

\* first = renderer.render(document): the caller holds on to the result of the call
\* that just returned, to compare a later result with it
keep_result ==
    /\ pc = "idle"
    /\ outcome = "returned"
    /\ caller = "render"
    /\ earlier' = [doc |-> doc, expand |-> expand_sections, blocks |-> returned,
                status |-> "kept"]
    /\ UNCHANGED <<blocks, expand_sections, returned, aliased, doc, pos, pc, outcome,
                   prev_outcome, stale, caller, dicts, made>>

\* a caller constructs TableBlock(rows, block_id) itself
TableBlockCall(rows, block_id) ==
    /\ made' = [rows |-> rows, block_id |-> block_id,
                status |-> IF TableBlockRejects(rows, block_id) THEN "ValueError" ELSE "built"]
    /\ UNCHANGED <<blocks, expand_sections, returned, aliased, doc, pos, pc, outcome,
                   prev_outcome, stale, caller, dicts, earlier>>

Next == Call(SeqDocs) \/ render_child \/ render_return
Spec == Init /\ [][Next]_vars

NextHeading == Call(HeadingDocs) \/ render_child \/ render_return
SpecHeading == Init /\ [][NextHeading]_vars

NextSection == Call(SectionDocs) \/ render_child \/ render_return
SpecSection == Init /\ [][NextSection]_vars

NextTable == Call(TableDocs) \/ render_child \/ render_return
SpecTable == Init /\ [][NextTable]_vars

NextLimits == Call(LimitDocs) \/ render_child \/ render_return
SpecLimits == Init /\ [][NextLimits]_vars

NextList == Call(ListDocs) \/ render_child \/ render_return
SpecList == Init /\ [][NextList]_vars

NextParagraph == Call(ParagraphDocs) \/ render_child \/ render_return
SpecParagraph == Init /\ [][NextParagraph]_vars

NextTableBlock == \E a \in TableBlockArgs : TableBlockCall(a[1], a[2])
SpecTableBlock == Init /\ [][NextTableBlock]_vars

NextExpand ==
    Call({Document(s) : s \in MixedDocs \cup {<<Quote(<<InnerQuote, InnerList>>), CodeBlock>>,
                                              <<List(Some(1), <<ListItem(<<InnerQuote>>)>>)>>}})
    \/ render_child \/ render_return
    \/ \E e \in {"None", "True", "False"} : construct(e)
SpecExpand == Init /\ [][NextExpand]_vars

\* the same documents rendered again and again, on one instance and on new ones
NextDeterminism ==
    Call({Document(s) : s \in MixedDocs \cup {<<Quote(<<InnerQuote, InnerList>>), CodeBlock>>}})
    \/ render_child \/ render_return \/ keep_result
    \/ \E e \in {"None", "True"} : construct(e)
SpecDeterminism == Init /\ [][NextDeterminism]_vars

NextBlank == Call(BlankDocs) \/ render_child \/ render_return
SpecBlank == Init /\ [][NextBlank]_vars

NextConvenience ==
    (\E d \in SeqDocs : markdown_to_blocks(d)) \/ render_child \/ to_dict_each
SpecConvenience == Init /\ [][NextConvenience]_vars

NextNest == Call(NestDocs) \/ render_child \/ render_return
SpecNest == Init /\ [][NextNest]_vars

NextExtract == Call(ExtractDocs) \/ render_child \/ render_return
SpecExtract == Init /\ [][NextExtract]_vars

\* documents of every block kind, nested quotes and lists, and documents that raise.  The
\* interpreter runs a call to its end, so a call in flight takes its next step: weak
\* fairness of render_return and of render_child, the latter with its enabling
\* condition (a child is left to render) written out
NextWalk ==
    Call({Document(s) : s \in MixedDocs \cup
              { <<Quote(<<InnerQuote, InnerList>>), CodeBlock>>,
                <<List(Some(1), <<ListItem(<<InnerQuote>>), ListItem(<<ThematicBreak>>)>>)>>,
                <<Quote(<<Quote(<<InnerQuote>>), BoldParagraph>>), TitleHeading>>,
                <<List(None, <<ListItem(<<PlainParagraph(<<"a">>), InnerList>>)>>), SmallTable>> }})
    \/ render_child \/ render_return
SpecWalk ==
    /\ Init /\ [][NextWalk]_vars
    /\ WF_vars(render_return)
    /\ <>[](pc = "inner" /\ pos <= Len(doc.children)) => []<><<render_child>>_vars

----------------------------------------------------------------------------
(* Properties. *)

\* the last render(document) call returned its list
Done == pc = "idle" /\ outcome = "returned"

\* the document of the last call has exactly one top-level child, of kind k
Sole(k) == Len(doc.children) = 1 /\ doc.children[1].kind = k

\* a concatenation of lists of blocks
RECURSIVE Flatten(_)
Flatten(lists) == IF lists = <<>> THEN <<>> ELSE Head(lists) \o Flatten(Tail(lists))

IsBlank(t) == \A i \in 1..Len(t) : t[i] \in Whitespace

\* the text, cut to keep characters and "..." when longer than limit
Cut(t, limit, keep) ==
    IF Len(t) > limit THEN [i \in 1..limit |-> IF i <= keep THEN t[i] ELSE "."] ELSE t

\* C2: a heading whose stripped plain text is longer than 150 gives a header text of
\* exactly 150 characters, the first 147 of the plain text and "..."; a plain text of
\* at most 150 characters is the header text unchanged.
C2_HeadingTruncation ==
    (Done /\ Sole("Heading")) =>
        LET t == strip(_extract_plain_text_from_children(doc.children[1])) IN
        /\ Len(returned) = 1
        /\ returned[1].type = "header"
        /\ Len(t) > HeaderLimit =>
              /\ Len(returned[1].text) = HeaderLimit
              /\ SubSeq(returned[1].text, HeaderKeep + 1, HeaderLimit) = Ellipsis
              /\ SubSeq(returned[1].text, 1, HeaderKeep) = SubSeq(t, 1, HeaderKeep)
        /\ Len(t) <= HeaderLimit => returned[1].text = t

C2_Witness ==
    /\ Done /\ Sole("Heading")
    /\ Len(strip(_extract_plain_text_from_children(doc.children[1]))) = HeaderLimit + 1
    /\ Len(returned[1].text) = HeaderLimit

\* the RawText contents of a subtree, in order
RECURSIVE RawTextOf(_)
RawTextOf(tokens) ==
    IF tokens = <<>> THEN <<>>
    ELSE (IF Head(tokens).kind = "RawText" THEN Head(tokens).content
          ELSE RawTextOf(Head(tokens).children))
         \o RawTextOf(Tail(tokens))

\* the RawText contents of a subtree, a space for each LineBreak and the target of
\* each Link or AutoLink without children, in order
RECURSIVE LiteralOf(_)
LiteralOf(tokens) ==
    IF tokens = <<>> THEN <<>>
    ELSE LET h == Head(tokens) IN
         (IF h.kind = "RawText" THEN h.content
          ELSE IF h.kind = "LineBreak" THEN <<" ">>
          ELSE IF h.kind \in {"Link", "AutoLink"} /\ h.children = <<>> THEN h.target
          ELSE LiteralOf(h.children))
         \o LiteralOf(Tail(tokens))

Markers == {"*", "_", "~", BT, "<", ">", "|"}

\* C4 as stated: the header text is the concatenation of the RawText contents of the
\* heading's inline subtree and of nothing else (read with the stripping and the cut
\* to 150 characters that every header text undergoes).
C4_RawTextOnly ==
    (Done /\ Sole("Heading")) =>
        returned[1].text =
            Cut(strip(RawTextOf(doc.children[1].children)), HeaderLimit, HeaderKeep)

\* C4, amended: the header text is the concatenation of the RawText contents, one
\* space for each LineBreak and the target of each childless Link or AutoLink, stripped
\* and cut to 150; Strong, Emphasis, Strikethrough, InlineCode, Image and a Link with
\* children add no character at any depth, and marker glyphs of the literal text stay.
C4_HeaderPlainText ==
    (Done /\ Sole("Heading")) =>
        LET literal == strip(LiteralOf(doc.children[1].children)) IN
        /\ Len(returned) = 1
        /\ returned[1].text = Cut(literal, HeaderLimit, HeaderKeep)
        /\ \A i \in 1..Len(returned[1].text) :
              returned[1].text[i] \in Markers =>
                  \E j \in 1..Len(literal) : literal[j] = returned[1].text[i]

C4_Witness ==
    /\ Done /\ Sole("Heading")
    /\ Len(doc.children[1].children) = 1
    /\ doc.children[1].children[1].kind = "Link"
    /\ doc.children[1].children[1].children # <<>>
    /\ doc.children[1].children[1].children[1].kind = "InlineCode"
    /\ doc.children[1].children[1].children[1].children[1].kind = "Emphasis"
    /\ returned[1].text = MarkText

\* C5: the returned list is the blocks of the top-level children, each child's own
\* blocks in the children's order; heading, paragraph, thematic break give
\* header("Title"), section("Some *bold* text."), divider.
C5_ChildOrder ==
    (Done /\ \A i \in 1..Len(doc.children) : doc.children[i].kind # "Unknown") =>
        /\ returned = Flatten([i \in 1..Len(doc.children) |->
                                  render(doc.children[i], <<>>).blocks])
        /\ doc.children = <<TitleHeading, BoldParagraph, ThematicBreak>> =>
              returned = << HeaderBlock(TitleText),
                            SectionBlock(SomeText \o <<"*">> \o BoldText \o <<"*">> \o TailText,
                                         expand_sections),
                            DividerBlock >>

C5_Witness ==
    /\ Done
    /\ Len(doc.children) = 7
    /\ [i \in 1..Len(returned) |-> returned[i].type] =
           <<"header", "section", "section", "section", "section", "table", "divider">>

\* C6: whatever the instance rendered before, and also after a call that raised with
\* blocks already appended, the blocks of the call in flight, and the list it
\* returns, are those of its own document's children rendered from an empty list.
C6_NoCarryOver ==
    /\ pc = "inner" => blocks = RenderEach(SubSeq(doc.children, 1, pos - 1), <<>>).blocks
    /\ Done => returned = RenderEach(doc.children, <<>>).blocks

C6_Witness ==
    /\ Done
    /\ prev_outcome = "raised"
    /\ stale > 0
    /\ returned # <<>>

\* C7: a document without children, or with only paragraphs whose rendered text is
\* empty or whitespace, returns the empty list.
C7_BlankDocument ==
    (Done /\ \A i \in 1..Len(doc.children) :
                 /\ doc.children[i].kind = "Paragraph"
                 /\ IsBlank(render_inner(doc.children[i], <<>>).text))
        => returned = <<>>

C7_Witness ==
    /\ Done
    /\ doc.children = <<BlankParagraph, BreakParagraph, EmptyParagraph>>
    /\ returned = <<>>
    /\ stale > 0

\* the ceiling of one block
WithinCeiling(block) ==
    /\ block.type = "header" => Len(block.text) <= HeaderLimit
    /\ block.type = "section" => Len(block.text) <= SectionLimit
    /\ block.type = "table" =>
          /\ Len(block.rows) <= RowLimit
          /\ \A k \in 1..Len(block.rows) : Len(block.rows[k]) <= CellLimit

\* C1: every block of the output list, and of the list a call returned, is within its
\* ceiling (header text 150, section text 3000, table 100 rows of 20 cells), and no
\* render call raises: TableBlock's construction never fails on these inputs.
C1_Ceilings ==
    /\ \A i \in 1..Len(blocks) : WithinCeiling(blocks[i])
    /\ \A i \in 1..Len(returned) : WithinCeiling(returned[i])
    /\ outcome # "raised"

C1_Witness ==
    /\ Done /\ Sole("Table")
    /\ Len(doc.children[1].children) > RowLimit
    /\ Len(doc.children[1].children[1].children) > CellLimit
    /\ Len(returned) = 1
    /\ Len(returned[1].rows) = RowLimit
    /\ Len(returned[1].rows[RowLimit]) = CellLimit

\* the text a Paragraph, a List or a Quote assembles before the truncation
Assembled(token) ==
    IF token.kind = "Paragraph" THEN strip(render_inner(token, <<>>).text)
    ELSE IF token.kind = "List"
        THEN join_lines(ListItems(token, token.children, 0, <<>>, <<>>).items)
    ELSE format_quote(QuoteParts(token.children, <<>>, <<>>).parts)

\* C3: a Paragraph, List or Quote whose assembled text is longer than 3000 gives a
\* section text of exactly 3000 characters, the first 2997 of the assembled text
\* and "..."; an assembled text of at most 3000 characters is emitted unchanged.
C3_SectionTruncation ==
    (Done /\ (Sole("Paragraph") \/ Sole("List") \/ Sole("Quote"))) =>
        LET a == Assembled(doc.children[1]) IN
        IF a = <<>> THEN returned = <<>>
        ELSE /\ Len(returned) = 1
             /\ returned[1].type = "section"
             /\ Len(a) > SectionLimit =>
                   /\ Len(returned[1].text) = SectionLimit
                   /\ SubSeq(returned[1].text, SectionKeep + 1, SectionLimit) = Ellipsis
                   /\ SubSeq(returned[1].text, 1, SectionKeep) = SubSeq(a, 1, SectionKeep)
             /\ Len(a) <= SectionLimit => returned[1].text = a

C3_Witness ==
    /\ Done /\ Sole("Quote")
    /\ Len(doc.children[1].children) = 2
    /\ Len(Assembled(doc.children[1])) = SectionLimit + 1
    /\ Len(returned[1].text) = SectionLimit
    /\ SubSeq(returned[1].text, SectionKeep + 1, SectionLimit) = Ellipsis

\* a Table with a header row whose rows all have the same number of cells, at least one
UniformTable(t) ==
    /\ t.kind = "Table" /\ t.header # None
    /\ Len(t.header[1].children) >= 1
    /\ \A r \in 1..Len(t.children) : Len(t.children[r].children) = Len(t.header[1].children)

\* row k of the table as the source has it, the header row first
SourceRow(t, k) == IF k = 1 THEN t.header[1] ELSE t.children[k - 1]

Min(a, b) == IF a <= b THEN a ELSE b

\* C8 as stated: one table block of N+1 rows, min(M,20) cells in every row, every
\* cell text the plain-text extraction of its cell.
C8_RowsAreNPlusOne ==
    (Done /\ Len(doc.children) = 1 /\ UniformTable(doc.children[1])) =>
        LET t == doc.children[1]
            m == Len(t.header[1].children)
        IN /\ Len(returned) = 1
           /\ returned[1].type = "table"
           /\ Len(returned[1].rows) = Len(t.children) + 1
           /\ \A k \in 1..Len(returned[1].rows) :
                 /\ Len(returned[1].rows[k]) = Min(m, CellLimit)
                 /\ \A c \in 1..Len(returned[1].rows[k]) :
                       returned[1].rows[k][c].text =
                           _extract_plain_text_from_children(SourceRow(t, k).children[c])

\* C8, amended: the call returns one table block of min(N+1, 100) rows, the header
\* row first; every row has min(M,20) cells, the first ones of its source row, and
\* every cell text is the stripped plain-text extraction of its cell, or one space
\* when that is empty.
C8_TableShape ==
    (pc = "idle" /\ outcome # "none" /\ Len(doc.children) = 1
       /\ UniformTable(doc.children[1])) =>
        LET t == doc.children[1]
            m == Len(t.header[1].children)
        IN /\ outcome = "returned"
           /\ Len(returned) = 1
           /\ returned[1].type = "table"
           /\ Len(returned[1].rows) = Min(Len(t.children) + 1, RowLimit)
           /\ \A k \in 1..Len(returned[1].rows) :
                 /\ Len(returned[1].rows[k]) = Min(m, CellLimit)
                 /\ \A c \in 1..Len(returned[1].rows[k]) :
                       LET plain == strip(_extract_plain_text_from_children(
                                              SourceRow(t, k).children[c]))
                       IN /\ returned[1].rows[k][c].type = "raw_text"
                          /\ returned[1].rows[k][c].text =
                                 IF plain = <<>> THEN <<" ">> ELSE plain

C8_Witness ==
    /\ Done /\ Len(doc.children) = 1 /\ UniformTable(doc.children[1])
    /\ Len(doc.children[1].children) = RowLimit
    /\ Len(doc.children[1].header[1].children) = CellLimit + 1
    /\ Len(returned[1].rows) = RowLimit
    /\ Len(returned[1].rows[1]) = CellLimit

\* the lines joined by single newlines
RECURSIVE Lines(_)
Lines(ls) ==
    IF Len(ls) = 0 THEN <<>>
    ELSE IF Len(ls) = 1 THEN ls[1]
    ELSE Lines(SubSeq(ls, 1, Len(ls) - 1)) \o <<"\n">> \o ls[Len(ls)]

\* the stripped text of item i (1-based) of a List
ItemTextOf(l, i) == strip(render_list_item(l.children[i], <<>>).text)

\* the label C9 gives the item at 1-based position i
LabelOf(l, i) ==
    IF l.start # None
    THEN str((i - 1) + l.start[1]) \o <<".", " ">> \o ItemTextOf(l, i)
    ELSE <<Bullet, " ">> \o ItemTextOf(l, i)

\* the positions of the items whose stripped text is non-empty, in order
RECURSIVE Surviving(_, _)
Surviving(l, i) ==
    IF i > Len(l.children) THEN <<>>
    ELSE (IF ItemTextOf(l, i) # <<>> THEN <<i>> ELSE <<>>) \o Surviving(l, i + 1)

\* C9: an ordered List (start present, 0 included) labels the non-empty item at
\* 0-based position i "{i + start}. {text}" whatever items were skipped before it, an
\* unordered List labels it "<bullet> {text}"; the labels are joined by single newlines
\* in item order, and a List without a non-empty item appends no block.
C9_ListLabels ==
    (Done /\ Sole("List")) =>
        LET l == doc.children[1]
            kept == Surviving(l, 1)
        IN IF kept = <<>> THEN returned = <<>>
           ELSE /\ Len(returned) = 1
                /\ returned[1].type = "section"
                /\ returned[1].text = Lines([k \in 1..Len(kept) |-> LabelOf(l, kept[k])])

C9_Witness ==
    /\ Done /\ Sole("List")
    /\ doc.children[1].start = Some(0)
    /\ doc.children[1].children = <<ItemBlank, ItemText, ItemText>>
    /\ returned[1].text = <<"1", ".", " ", "a", " ", "*", "b", "*", "\n",
                            "2", ".", " ", "a", " ", "*", "b", "*">>

\* C10: a Link renders as "<url|t>" exactly when its rendered inner text t is
\* non-empty and differs from url, and as "<url>" otherwise; an AutoLink renders as
\* "<target>" whatever its children.
C10_Links ==
    (Done /\ Sole("Paragraph") /\ Len(doc.children[1].children) = 1) =>
        LET x == doc.children[1].children[1]
            t == RenderEach(x.children, <<>>).text
            piped == <<"<">> \o x.target \o <<"|">> \o t \o <<">">>
            bare == <<"<">> \o x.target \o <<">">>
        IN /\ x.kind = "Link" =>
                 /\ Len(returned) = 1
                 /\ (t # <<>> /\ t # x.target) => returned[1].text = piped
                 /\ (t = <<>> \/ t = x.target) => returned[1].text = bare
           /\ x.kind = "AutoLink" => Len(returned) = 1 /\ returned[1].text = bare

C10_Witness ==
    /\ Done /\ Sole("Paragraph") /\ Len(doc.children[1].children) = 1
    /\ doc.children[1].children[1].kind = "Link"
    /\ Len(doc.children[1].children[1].children) = 2
    /\ RenderEach(doc.children[1].children[1].children, <<>>).text = UrlText
    /\ returned[1].text = <<"<">> \o UrlText \o <<">">>

\* the part a direct child of a Quote yields: the stripped rendering of its children
PartOf(child) ==
    IF child.children = <<>> THEN <<>> ELSE strip(RenderEach(child.children, <<>>).text)

\* the non-empty parts of a Quote's direct children, in order
PartsOf(q) ==
    LET all == [i \in 1..Len(q.children) |-> PartOf(q.children[i])]
        nonempty(p) == p # <<>>
    IN SelectSeq(all, nonempty)

\* ">p1\n>\n>p2\n>\n...>pk"
RECURSIVE QuoteText(_)
QuoteText(parts) ==
    IF Len(parts) = 1 THEN <<">">> \o parts[1]
    ELSE <<">">> \o parts[1] \o <<"\n", ">", "\n">> \o QuoteText(Tail(parts))

\* the blocks that the block-level nodes below a Quote's direct children append
BelowQuote(q) ==
    Flatten([i \in 1..Len(q.children) |-> RenderEach(q.children[i].children, <<>>).blocks])

\* C11: a Quote whose direct children yield the non-empty stripped parts p1..pk, k >= 1,
\* appends one section block of its own, the last block of the list, whose text is
\* ">p1\n>\n>p2...>pk" (cut to 3000 when longer); a direct child without children, or
\* whose rendering is empty or blank, yields no part; with no part the Quote appends no
\* block of its own.  Blocks before the Quote's own are those appended by block-level
\* nodes two levels below it; without such nodes the Quote's block is the only one.
C11_QuoteFormat ==
    (Done /\ Sole("Quote")) =>
        LET q == doc.children[1]
            parts == PartsOf(q)
            own == IF parts = <<>> THEN <<>>
                   ELSE <<SectionBlock(Cut(QuoteText(parts), SectionLimit, SectionKeep),
                                       expand_sections)>>
        IN /\ returned = BelowQuote(q) \o own
           /\ BelowQuote(q) = <<>> => Len(returned) = (IF parts = <<>> THEN 0 ELSE 1)

C11_Witness ==
    /\ Done /\ Sole("Quote")
    /\ doc.children[1].children = <<PlainParagraph(<<"A">>), PlainParagraph(<<"B">>),
                                    PlainParagraph(<<"C">>)>>
    /\ Len(returned) = 1
    /\ returned[1].text = <<">", "A", "\n", ">", "\n", ">", "B", "\n", ">", "\n", ">", "C">>

\* the inline text of a sequence of inline nodes, composed from the texts of their children
RECURSIVE InlineOf(_)
InlineOf(tokens) ==
    IF tokens = <<>> THEN <<>>
    ELSE LET h == Head(tokens)
             inner == InlineOf(h.children)
             own ==
                CASE h.kind = "RawText" -> h.content
                  [] h.kind = "Strong" -> <<"*">> \o inner \o <<"*">>
                  [] h.kind = "Emphasis" -> <<"_">> \o inner \o <<"_">>
                  [] h.kind = "Strikethrough" -> <<"~">> \o inner \o <<"~">>
                  [] h.kind = "InlineCode" -> <<BT>> \o inner \o <<BT>>
                  [] h.kind = "EscapeSequence" -> inner
                  [] h.kind = "LineBreak" -> IF h.soft THEN <<"\n">> ELSE <<"\n", "\n">>
                  [] h.kind = "Image" ->
                        IF inner # <<>> THEN <<"<">> \o h.target \o <<"|">> \o inner \o <<">">>
                        ELSE <<"<">> \o h.target \o <<">">>
                  [] h.kind = "Link" ->
                        IF inner # <<>> /\ inner # h.target
                        THEN <<"<">> \o h.target \o <<"|">> \o inner \o <<">">>
                        ELSE <<"<">> \o h.target \o <<">">>
                  [] h.kind = "AutoLink" -> <<"<">> \o h.target \o <<">">>
         IN own \o InlineOf(Tail(tokens))

\* C12: the text of a Paragraph's section is the stripped inline text of its children,
\* where RawText gives its content, Strong, Emphasis, Strikethrough and InlineCode wrap
\* the inner text in "*", "_", "~" and the backtick, EscapeSequence gives the inner text,
\* LineBreak one newline when soft and two when hard, Image "<src|alt>" or "<src>", and
\* the inner text is the concatenation of the children's texts at any depth; a blank
\* inline text gives no section.
C12_InlineRendering ==
    (Done /\ Sole("Paragraph")) =>
        LET t == strip(InlineOf(doc.children[1].children)) IN
        IF t = <<>> THEN returned = <<>>
        ELSE /\ Len(returned) = 1
             /\ returned[1].type = "section"
             /\ returned[1].text = t

C12_Witness ==
    /\ Done /\ Sole("Paragraph")
    /\ doc.children[1].children = <<RawText(<<"a">>), LineBreak(FALSE), RawText(<<"b">>)>>
    /\ returned[1].text = <<"a", "\n", "\n", "b">>

\* C13: the list markdown_to_blocks returns has the length and the order of the block
\* list a fresh default renderer gives for the parsed document, element i being the
\* dictionary form of block i, whatever the calls made before it (also one that raised).
C13_Convenience ==
    (pc = "idle" /\ caller = "markdown_to_blocks" /\ outcome = "returned") =>
        LET fresh == RenderEach(doc.children, <<>>).blocks IN
        /\ expand_sections = "None"
        /\ Len(dicts) = Len(fresh)
        /\ \A i \in 1..Len(dicts) :
              /\ dicts[i] = to_dict(fresh[i])
              /\ dicts[i].type = fresh[i].type
              /\ fresh[i].type \in {"header", "section"} => dicts[i].text.text = fresh[i].text

C13_Witness ==
    /\ pc = "idle" /\ caller = "markdown_to_blocks" /\ outcome = "returned"
    /\ prev_outcome = "raised"
    /\ Len(doc.children) = 7
    /\ [i \in 1..Len(dicts) |-> dicts[i].type] =
           <<"header", "section", "section", "section", "section", "table", "divider">>
    /\ dicts[7] = [type |-> "divider"]

\* C14: TableBlock(rows, block_id) raises exactly when rows has more than 100 rows, or
\* some row has more than 20 cells, or block_id is longer than 255 characters; so it is
\* built with exactly 100 rows, exactly 20 cells in a row, a block_id of exactly 255
\* characters and an absent or empty block_id, and the built block keeps the rows.
C14_TableBlockLimits ==
    made.status # "none" =>
        LET n == Len(made.rows)
            widest == IF n = 0 THEN 0
                      ELSE CHOOSE w \in {Len(made.rows[r]) : r \in 1..n} :
                               \A r \in 1..n : Len(made.rows[r]) <= w
            idlen == IF made.block_id = None THEN 0 ELSE Len(made.block_id[1])
        IN /\ made.status \in {"built", "ValueError"}
           /\ (n > RowLimit \/ widest > CellLimit \/ idlen > BlockIdLimit)
                  => made.status = "ValueError"
           /\ (n <= RowLimit /\ widest <= CellLimit /\ idlen <= BlockIdLimit)
                  => made.status = "built"

C14_Witness ==
    /\ made.status = "built"
    /\ Len(made.rows) = RowLimit
    /\ \A r \in 1..RowLimit : Len(made.rows[r]) = CellLimit
    /\ made.block_id # None
    /\ Len(made.block_id[1]) = BlockIdLimit

\* the expand value of every block of a list: the configured one on a section, none on
\* a header, a divider and a table; unset, it is left out of the dictionary form
ExpandCarried(bs) ==
    \A i \in 1..Len(bs) :
        /\ bs[i].type = "section" =>
              /\ bs[i].expand = expand_sections
              /\ expand_sections = "None" => "expand" \notin DOMAIN to_dict(bs[i])
              /\ expand_sections # "None" =>
                    to_dict(bs[i]).expand = (expand_sections = "True")
        /\ bs[i].type # "section" =>
              /\ bs[i].expand = "absent"
              /\ "expand" \notin DOMAIN to_dict(bs[i])

\* C15: every section block appended during a render (from Paragraph, BlockCode, Quote
\* or List) carries the configured expand_sections (true, false or unset), header,
\* divider and table blocks carry none, unset it is omitted, and no step of a render
\* (its start, a top-level child, its return) changes the configured value.  The list
\* an instance returned is looked at while that instance is the one in use.
C15_Expand ==
    /\ [](ExpandCarried(blocks) /\ (outcome = "returned" => ExpandCarried(returned)))
    /\ [][(pc = "inner" \/ pc' = "inner") => expand_sections' = expand_sections]_vars

C15_Witness ==
    /\ Done
    /\ expand_sections = "False"
    /\ Len(doc.children) = 7
    /\ [i \in 1..Len(returned) |-> returned[i].expand] =
           <<"absent", "False", "False", "False", "False", "absent", "absent">>

Fence == <<BT, BT, BT>>

\* the literal content of a BlockCode's first child, empty without children
CodeOf(token) == IF token.children = <<>> THEN <<>> ELSE token.children[1].content

\* fence, newline, content, newline, fence
Fenced(content) == Fence \o <<"\n">> \o content \o <<"\n">> \o Fence

\* C16 as stated: whatever the length of the content, the section text of a BlockCode
\* is fence, newline, the content, newline, fence.
C16_FencedWhateverLength ==
    (Done /\ Sole("BlockCode")) =>
        /\ Len(returned) = 1
        /\ returned[1].text = Fenced(CodeOf(doc.children[1]))

\* C16, amended: a BlockCode appends one section whose text starts with three backticks
\* and a newline (no language tag); when the content has at most 2992 characters the
\* text is fence, newline, content, newline, fence; when it is longer the text is the
\* first 2997 characters of that string and "...", and so does not end with the fence.
C16_CodeFence ==
    (Done /\ Sole("BlockCode")) =>
        LET content == CodeOf(doc.children[1])
            text == returned[1].text
        IN /\ Len(returned) = 1
           /\ returned[1].type = "section"
           /\ SubSeq(text, 1, 4) = Fence \o <<"\n">>
           /\ Len(content) + 8 <= SectionLimit =>
                 /\ Len(text) = Len(content) + 8
                 /\ SubSeq(text, 5, Len(text) - 4) = content
                 /\ SubSeq(text, Len(text) - 3, Len(text)) = <<"\n">> \o Fence
           /\ Len(content) + 8 > SectionLimit =>
                 /\ Len(text) = SectionLimit
                 /\ SubSeq(text, 5, SectionKeep) = SubSeq(content, 1, SectionKeep - 4)
                 /\ SubSeq(text, SectionKeep + 1, SectionLimit) = Ellipsis

C16_Witness ==
    /\ Done /\ Sole("BlockCode")
    /\ Len(CodeOf(doc.children[1])) = SectionLimit - 8
    /\ Len(returned[1].text) = SectionLimit
    /\ SubSeq(returned[1].text, SectionLimit - 2, SectionLimit) = Fence

\* C17: rendering one top-level node of a Document makes the output list longer by at
\* most one, whatever the node contains: after the first pos - 1 children the list has
\* at most pos - 1 blocks, and a returned list at most one block per top-level child.
C17_AtMostOnePerNode ==
    /\ pc = "inner" => Len(blocks) <= pos - 1
    /\ Done => Len(returned) <= Len(doc.children)

\* the section a Quote or a List appends itself, as a list of no or one block
OwnBlock(x) ==
    IF x.kind = "Quote"
    THEN IF PartsOf(x) = <<>> THEN <<>>
         ELSE <<SectionBlock(Cut(QuoteText(PartsOf(x)), SectionLimit, SectionKeep),
                             expand_sections)>>
    ELSE LET kept == Surviving(x, 1) IN
         IF kept = <<>> THEN <<>>
         ELSE <<SectionBlock(Cut(Lines([k \in 1..Len(kept) |-> LabelOf(x, kept[k])]),
                                 SectionLimit, SectionKeep), expand_sections)>>

\* C20: the blocks are in the pre-order of the nodes that produced them.  A Quote or a
\* List starts before every node inside it, so in the list returned for a document of
\* one Quote or List that produces a block, that block is the first one, before the
\* blocks of the nodes nested in it.
C20_PreOrder ==
    (Done /\ (Sole("Quote") \/ Sole("List")) /\ OwnBlock(doc.children[1]) # <<>>) =>
        returned[1] = OwnBlock(doc.children[1])[1]

\* no character other than whitespace anywhere below: every RawText is blank and there
\* is no node that brings text or a block of its own (a link, an image, a break)
RECURSIVE BlankTokens(_)
BlankTokens(tokens) ==
    \A i \in 1..Len(tokens) :
        IF tokens[i].kind = "RawText" THEN IsBlank(tokens[i].content)
        ELSE /\ tokens[i].kind \notin {"Link", "AutoLink", "Image", "ThematicBreak", "Unknown"}
             /\ BlankTokens(tokens[i].children)

\* a block-producing node whose content is empty or whitespace-only
BlankNode(x) ==
    /\ x.kind \in {"Heading", "Paragraph", "BlockCode", "Quote", "List", "Table"}
    /\ BlankTokens(x.children)
    /\ x.header # None => BlankTokens(x.header)

\* what a blank node contributes: a Heading a header with empty text, a BlockCode the
\* fences around its content, a Table with rows a table of single-space cells, and a
\* Paragraph, a Quote, a List and a Table without rows nothing
BlankYield(x) ==
    IF x.kind = "Heading" THEN <<HeaderBlock(<<>>)>>
    ELSE IF x.kind = "BlockCode" THEN <<SectionBlock(Fenced(CodeOf(x)), expand_sections)>>
    ELSE IF x.kind = "Table" /\ (x.header # None \/ x.children # <<>>)
    THEN LET source == x.header \o x.children IN
         <<TableBlock([r \in 1..Len(source) |->
                          [c \in 1..Len(source[r].children) |-> Cell(<<" ">>)]])>>
    ELSE <<>>

\* every top-level child of the last document is a blank node, and the call is over
AllBlank ==
    /\ pc = "idle" /\ outcome # "none" /\ caller = "render"
    /\ \A i \in 1..Len(doc.children) : BlankNode(doc.children[i])

OneBlock(x) ==
    IF x.kind = "Heading"
    THEN <<HeaderBlock(Cut(strip(LiteralOf(x.children)), HeaderLimit, HeaderKeep))>>
    ELSE IF x.kind = "ThematicBreak" THEN <<DividerBlock>>
    ELSE LET t == strip(InlineOf(x.children)) IN
         IF t # <<>> THEN <<SectionBlock(Cut(t, SectionLimit, SectionKeep), expand_sections)>>
         ELSE <<>>

\* C19: every Heading appends exactly one header block, with empty text when its
\* stripped plain text is empty; every ThematicBreak appends exactly one divider; a
\* Paragraph appends exactly one section block if its stripped rendered text is
\* non-empty and no block otherwise.
C19_AlwaysOrIfNonEmpty ==
    (Done /\ \A i \in 1..Len(doc.children) :
                 doc.children[i].kind \in {"Heading", "ThematicBreak", "Paragraph"}) =>
        /\ returned = Flatten([i \in 1..Len(doc.children) |-> OneBlock(doc.children[i])])
        /\ \A i \in 1..Len(doc.children) :
              LET n == Len(render(doc.children[i], <<>>).blocks)
                  x == doc.children[i]
              IN /\ x.kind \in {"Heading", "ThematicBreak"} => n = 1
                 /\ x.kind = "Paragraph" =>
                       (n = 1 <=> strip(render_inner(x, <<>>).text) # <<>>) /\ n <= 1

C19_Witness ==
    /\ Done
    /\ doc.children = <<Heading(<<RawText(<<" ", "\t">>)>>), BlankParagraph, ThematicBreak>>
    /\ returned = <<HeaderBlock(<<>>), DividerBlock>>

\* C21: render_list_item only returns text.  For every item of a rendered List, whatever
\* the item's children are, the output list after the call (made on an empty list or
\* on the list the render returned) is the list before the call.
C21_ItemReturnsTextOnly ==
    (Done /\ Sole("List")) =>
        \A i \in 1..Len(doc.children[1].children) :
            \A b \in {<<>>, returned} :
                render_list_item(doc.children[1].children[i], b).blocks = b

\* C22: plain-text extraction leaves the output list and the input tree as they are.
\* Rendering a Heading or a Table, whose texts are built by extraction, keeps the
\* document and the blocks already in the list, and appends exactly one block (the
\* header, the table), whatever nodes the heading or the cells contain; it never raises.
C22_ExtractionFrame ==
    [][(pc = "inner" /\ pos <= Len(doc.children)
          /\ doc.children[pos].kind \in {"Heading", "Table"}) =>
            /\ doc' = doc
            /\ outcome' # "raised"
            /\ Len(blocks') = Len(blocks) + 1
            /\ SubSeq(blocks', 1, Len(blocks)) = blocks
            /\ blocks'[Len(blocks')].type =
                   (IF doc.children[pos].kind = "Heading" THEN "header" ELSE "table")]_vars

C22_Witness ==
    /\ Done
    /\ Len(doc.children) = 3
    /\ doc.children[1].children = <<RawText(<<"a">>), PlainParagraph(<<"p">>), ThematicBreak>>
    /\ returned = << HeaderBlock(<<"a", "p">>),
                     TableBlock(<< <<Cell(<<"a", "p">>), Cell(<<" ">>)>> >>),
                     DividerBlock >>

\* every node of the trees, at any depth
RECURSIVE NodesOf(_)
NodesOf(tokens) ==
    UNION {{tokens[i]} \cup NodesOf(tokens[i].children) : i \in 1..Len(tokens)}

\* C23: for every node below a rendered Heading, the extraction is: the content of a
\* RawText; the concatenation of the children's extractions for Strong, Emphasis,
\* Strikethrough, InlineCode and EscapeSequence; for a Link or an AutoLink the children's
\* extraction when it has children and the target otherwise; for an Image the children's
\* extraction or the empty text; one space for a LineBreak, soft or hard; for any other
\* kind the children's extraction, empty without children.  The header text is the
\* stripped concatenation of the extractions of the Heading's children, cut to 150.
C23_ExtractionRules ==
    (Done /\ Sole("Heading")) =>
        /\ \A x \in NodesOf(doc.children[1].children) :
              LET e == _extract_plain_text(x)
                  kids == Flatten([i \in 1..Len(x.children) |->
                                      _extract_plain_text(x.children[i])])
              IN CASE x.kind = "RawText" -> e = x.content
                   [] x.kind \in {"Link", "AutoLink"} ->
                         e = (IF Len(x.children) > 0 THEN kids ELSE x.target)
                   [] x.kind = "LineBreak" -> e = <<" ">>
                   [] OTHER -> e = kids /\ (Len(x.children) = 0 => e = <<>>)
        /\ returned = <<HeaderBlock(Cut(strip(Flatten(
                           [i \in 1..Len(doc.children[1].children) |->
                               _extract_plain_text(doc.children[1].children[i])])),
                           HeaderLimit, HeaderKeep))>>

C23_Witness ==
    /\ Done /\ Sole("Heading")
    /\ doc.children[1].children =
           <<Image(UrlText, <<RawText(<<"a", "l", "t">>)>>), AutoLink(UrlText, <<>>)>>
    /\ returned[1].text = <<"a", "l", "t">> \o UrlText

\* the rows of a Table as the tree has them: the header row, when present, then the body
SourceRows(t) == t.header \o t.children

\* C24: render_table's rows are the header row (when the table has one) followed by the
\* body rows in order, cut to the first 100: with a header and more than 99 body rows
\* the header and the first 99 body rows are kept.  A table with at least one row
\* appends exactly one table block, one with no header and no body row appends nothing.
C24_TableRows ==
    (pc = "idle" /\ outcome # "none" /\ Sole("Table")) =>
        LET t == doc.children[1]
            source == SourceRows(t)
        IN /\ outcome = "returned"
           /\ IF source = <<>> THEN returned = <<>>
              ELSE /\ Len(returned) = 1
                   /\ returned[1].type = "table"
                   /\ Len(returned[1].rows) = Min(Len(source), RowLimit)
                   /\ \A k \in 1..Len(returned[1].rows) :
                         returned[1].rows[k] = _render_table_row_as_cells(source[k])
                   /\ (t.header # None /\ Len(t.children) > RowLimit - 1) =>
                         /\ returned[1].rows[1] = _render_table_row_as_cells(t.header[1])
                         /\ returned[1].rows[RowLimit] =
                                _render_table_row_as_cells(t.children[RowLimit - 1])

C24_Witness ==
    /\ Done /\ Sole("Table")
    /\ doc.children[1].header # None
    /\ Len(doc.children[1].children) = RowLimit
    /\ Len(returned[1].rows) = RowLimit
    /\ returned[1].rows[1] = <<Cell(<<"0", "1">>)>>
    /\ returned[1].rows[RowLimit] = <<Cell(<<"9", "1">>)>>

\* C25: every row of a table block holds the first min(n, 20) cells of its source row
\* of n cells, in order, each {type: "raw_text", text: v} with v the stripped plain-text
\* extraction of the cell, or a single space when that is empty; no cell text is empty.
C25_RowCells ==
    (Done /\ Sole("Table") /\ returned # <<>>) =>
        \A k \in 1..Len(returned[1].rows) :
            LET src == SourceRows(doc.children[1])[k].children
                cells == returned[1].rows[k]
            IN /\ Len(cells) = Min(Len(src), CellLimit)
               /\ \A c \in 1..Len(cells) :
                     LET v == strip(Flatten([i \in 1..Len(src[c].children) |->
                                                _extract_plain_text(src[c].children[i])]))
                     IN /\ cells[c] = [type |-> "raw_text", text |-> cells[c].text]
                        /\ cells[c].text = (IF Len(v) = 0 THEN <<" ">> ELSE v)
                        /\ Len(cells[c].text) > 0

C25_Witness ==
    /\ Done /\ Sole("Table")
    /\ doc.children[1].header = Some(FormattedRow)
    /\ returned[1].rows[1] = <<Cell(<<"A", " ", "w", " ", "c">>), Cell(<<" ">>), Cell(<<"a">>)>>

\* C26: rendering is deterministic.  When a document is rendered again, on the same
\* instance or on another one with the same expand_sections, whatever was rendered in
\* between (other documents, calls that raised), the list returned has the length, and
\* block by block the kind, the text and the table rows, of the list returned before.
C26_Deterministic ==
    (Done /\ earlier.status = "kept" /\ earlier.doc = doc
       /\ earlier.expand = expand_sections) =>
        /\ Len(returned) = Len(earlier.blocks)
        /\ \A i \in 1..Len(returned) :
              /\ returned[i].type = earlier.blocks[i].type
              /\ returned[i].text = earlier.blocks[i].text
              /\ returned[i].rows = earlier.blocks[i].rows

C26_Witness ==
    /\ Done /\ earlier.status = "kept" /\ earlier.doc = doc /\ earlier.expand = expand_sections
    /\ expand_sections = "True"
    /\ prev_outcome = "raised"
    /\ stale > 0
    /\ Len(doc.children) = 7
    /\ Len(returned) = 7
    /\ returned = earlier.blocks

\* C27: the list one render(document) call returned is not changed by a later
\* render(document) call on the instance.  The call in flight works on a list of its own
\* (never the one handed out), and no step but the return of a call, which hands out
\* the new list, changes what the caller got.
C27_ReturnedListKept ==
    /\ [](pc = "inner" => ~aliased)
    /\ [][(pc = "idle" \/ pos <= Len(doc.children)) => returned' = returned]_vars

C27_Witness ==
    /\ pc = "inner"
    /\ prev_outcome = "returned"
    /\ pos = 3
    /\ returned = <<HeaderBlock(TitleText), DividerBlock>>
    /\ blocks = <<DividerBlock, DividerBlock>>
    /\ stale = 2

\* C28: every section block, in the output list and in a returned list, has a non-empty
\* text; a block whose text is empty is a header (a divider and a table have no text of
\* their own).
C28_SectionTextNonEmpty ==
    \A bs \in {blocks, returned} :
        \A i \in 1..Len(bs) :
            /\ bs[i].type = "section" => Len(bs[i].text) > 0
            /\ (bs[i].type \notin {"divider", "table"} /\ Len(bs[i].text) = 0) =>
                  bs[i].type = "header"

C28_Witness ==
    /\ Done
    /\ doc.children = <<BlankParagraph, BlockCode(<<>>)>>
    /\ returned = <<SectionBlock(Fenced(<<>>), expand_sections)>>
    /\ stale = 2

\* C29: in the text of the section a Quote appends (short enough not to be cut), every
\* line begins with ">": the text starts with ">" and every newline is followed by ">",
\* also when a quoted paragraph holds a soft or a hard LineBreak.
C29_EveryLineQuoted ==
    (Done /\ Sole("Quote") /\ PartsOf(doc.children[1]) # <<>>) =>
        LET text == returned[Len(returned)].text IN
        /\ text[1] = ">"
        /\ \A i \in 1..Len(text) :
              text[i] = "\n" => (i < Len(text) /\ text[i + 1] = ">")

\* the nodes, as paths of child positions from the root, that the extraction reads
\* below a token: every descendant
RECURSIVE ExtractVisits(_, _)
ExtractVisits(token, path) ==
    Flatten([i \in 1..Len(token.children) |->
                <<path \o <<i>>>> \o ExtractVisits(token.children[i], path \o <<i>>)])

\* the nodes that render(token) hands to self.render, to a handler called directly
\* (render_list_item, _render_table_row_as_cells, render_table_cell) or to the
\* extraction, in call order; position 0 is a Table's header row
RECURSIVE Visits(_, _)
Visits(token, path) ==
    LET each(t, p) ==
            Flatten([i \in 1..Len(t.children) |->
                        <<p \o <<i>>>> \o Visits(t.children[i], p \o <<i>>)])
        below(t, p) ==
            Flatten([i \in 1..Len(t.children) |->
                        IF t.children[i].children # <<>> THEN each(t.children[i], p \o <<i>>)
                        ELSE IF t.kind = "ListItem"
                             THEN <<p \o <<i>>>> \o Visits(t.children[i], p \o <<i>>)
                             ELSE <<>>])
        cells(row, p, n) ==
            Flatten([c \in 1..Min(Len(row.children), n) |->
                        <<p \o <<c>>>> \o ExtractVisits(row.children[c], p \o <<c>>)])
    IN CASE token.kind \in {"Heading", "TableCell"} -> ExtractVisits(token, path)
         [] token.kind \in {"Quote", "ListItem"} -> below(token, path)
         [] token.kind = "Table" ->
               (IF token.header # None
                THEN <<path \o <<0>>>> \o cells(token.header[1], path \o <<0>>, CellLimit + 1)
                ELSE <<>>)
               \o Flatten([r \in 1..Len(token.children) |->
                              <<path \o <<r>>>>
                              \o cells(token.children[r], path \o <<r>>, CellLimit + 1)])
         [] token.kind = "TableRow" -> cells(token, path, Len(token.children))
         [] token.kind \in {"AutoLink", "BlockCode"} -> <<>>
         [] OTHER -> each(token, path)

\* the node at a path
RECURSIVE NodeAt(_, _)
NodeAt(token, path) ==
    IF path = <<>> THEN token
    ELSE IF Head(path) = 0 THEN NodeAt(token.header[1], Tail(path))
    ELSE NodeAt(token.children[Head(path)], Tail(path))

BlockLevel == {"Heading", "Paragraph", "BlockCode", "Quote", "List", "ThematicBreak", "Table"}

\* the number of block-level nodes in the trees, at any depth
RECURSIVE BlockNodes(_)
BlockNodes(tokens) ==
    IF tokens = <<>> THEN 0
    ELSE (IF Head(tokens).kind \in BlockLevel THEN 1 ELSE 0)
         + BlockNodes(Head(tokens).children) + BlockNodes(Head(tokens).header)
         + BlockNodes(Tail(tokens))

\* C30: a render(document) call in flight comes to its end (it returns or raises); no
\* node of the tree is handed to a handler twice; and the output list, and the list
\* returned, never hold more blocks than block-level nodes were handed to a handler,
\* which are at most the block-level nodes (Heading, Paragraph, BlockCode, Quote, List,
\* ThematicBreak, Table) of the tree.
C30_TerminatesWithinBound ==
    /\ (pc = "inner") ~> (pc = "idle")
    /\ [](LET v == Visits(doc, <<>>)
              handled == Cardinality({i \in 1..Len(v) : NodeAt(doc, v[i]).kind \in BlockLevel})
          IN /\ Cardinality({v[i] : i \in 1..Len(v)}) = Len(v)
             /\ Len(blocks) <= handled
             /\ Done => Len(returned) <= handled
             /\ handled <= BlockNodes(doc.children))

C30_Witness ==
    /\ Done
    /\ doc.children = <<Quote(<<InnerQuote, InnerList>>), CodeBlock>>
    /\ Len(returned) = 3
    /\ BlockNodes(doc.children) = 6
    /\ Len(Visits(doc, <<>>)) = 6

====
